---------------------------- MODULE Spec2Model ----------------------------
(***************************************************************************)
(* A model of terasim_cosmos/street_view_analysis.py: the class            *)
(* StreetViewRetrievalAndAnalysis (construction, the FCD pose lookup, the  *)
(* report.yaml context extraction and the six-camera orchestrator).        *)
(*                                                                         *)
(* Python values are modelled as follows.  An optional value is a sequence *)
(* of length at most one: None is << >> and a value v is << v >>.  FCD     *)
(* timestamps and the target time are floats in the code; here they are    *)
(* integer ticks, on which abs and < behave as on the finite floats.  The   *)
(* FCD elements carry every attribute the code reads.  The environment     *)
(* variable GEMINI_MODEL_NAME is unset, and the attribute gemini_api_key,  *)
(* which the remote path never sets, reads as None.  The print calls       *)
(* return.  An external call (readNet, convertXY2LonLat, the HTTP          *)
(* requests, the model client, open and write) returns or raises.          *)
(***************************************************************************)
EXTENDS Integers, Sequences, FiniteSets, TLC

VARIABLES
    pc,               \* position of the single thread of control
    self,             \* the StreetViewRetrievalAndAnalysis object (<< >> before construction)
    fcd,              \* the timesteps of the FCD file, in file order
    vehicle_id,       \* argument vehicle_id
    target_time,      \* argument target_time
    all_timesteps,    \* local of get_vehicle_position_at_time (after the sort)
    min_diff,         \* local of get_vehicle_position_at_time (<< >> is float('inf'))
    target_timestep,  \* local of get_vehicle_position_at_time
    vehicle_position, \* value returned by get_vehicle_position_at_time
    report,           \* state of <fcd dir>/report.yaml
    context,          \* value returned (or exception raised) by _load_environment_context
    camera,           \* index of the loop over camera_angle_list
    request,          \* arguments of the running get_street_view_image call
    image_data,       \* local image_data of the loop body
    files,            \* output files written in this call, per camera
    descriptions,     \* local list descriptions
    sumo_net,         \* local sumo_net (<< >> until readNet returns)
    lonlat,           \* locals lon, lat (<< >> until convertXY2LonLat returns)
    result            \* how the running call ended: returned value or exception

vars == << pc, self, fcd, vehicle_id, target_time, all_timesteps, min_diff,
           target_timestep, vehicle_position, report, context, camera, request,
           image_data, files, descriptions, sumo_net, lonlat, result >>

None == << >>
Some(v) == << v >>
IsNone(o) == o = << >>

Abs(x) == IF x < 0 THEN -x ELSE x

-----------------------------------------------------------------------------
(* Bounds of the FCD inputs *)

MaxSteps == 2
MaxTime == 2

Times == 0 .. MaxTime
VehicleIds == {"vehicle0", "vehicle1"}

PoseA == [x |-> 10, y |-> 20, angle |-> 90]
PoseB == [x |-> 11, y |-> 21, angle |-> 170]
PoseC == [x |-> 12, y |-> 22, angle |-> 350]

Vehicle(id, p) == [id |-> id, x |-> p.x, y |-> p.y, angle |-> p.angle]

\* the <vehicle> children a <timestep> can hold, in document order
VehicleLists ==
    { << >>,
      << Vehicle("vehicle0", PoseA) >>,
      << Vehicle("vehicle1", PoseB) >>,
      << Vehicle("vehicle1", PoseA), Vehicle("vehicle0", PoseB) >>,
      << Vehicle("vehicle0", PoseA), Vehicle("vehicle0", PoseC) >>,
      << Vehicle("vehicle0", PoseC), Vehicle("vehicle0", PoseA) >> }

Timesteps == [time : Times, vehicles : VehicleLists]

SeqsUpTo(S, n) == UNION { [1 .. k -> S] : k \in 0 .. n }

FcdLogs == SeqsUpTo(Timesteps, MaxSteps)

-----------------------------------------------------------------------------
(* get_vehicle_position_at_time *)

\* list.sort(key=...) is stable: an element goes after every element whose
\* key is less than or equal to its own.
RECURSIVE InsertByTime(_, _)
InsertByTime(sorted, ts) ==
    IF sorted = << >> THEN << ts >>
    ELSE IF ts.time < Head(sorted).time
         THEN << ts >> \o sorted
         ELSE << Head(sorted) >> \o InsertByTime(Tail(sorted), ts)

RECURSIVE SortByTime(_)
SortByTime(s) ==
    IF s = << >> THEN << >>
    ELSE InsertByTime(SortByTime(SubSeq(s, 1, Len(s) - 1)), s[Len(s)])

\* time_diff < min_diff, where min_diff starts as float('inf')
CloserFarther(time_diff, md) == IsNone(md) \/ time_diff > md[1]
Closer(time_diff, md) == IsNone(md) \/ time_diff < md[1]

\* the loop of lines 157-161 over s[i .. Len(s)], from the locals acc
RECURSIVE ScanTimesteps(_, _, _, _)
ScanTimesteps(s, i, target, acc) ==
    IF i > Len(s) THEN acc
    ELSE LET time_diff == Abs(s[i].time - target)
         IN  IF Closer(time_diff, acc.min_diff)
             THEN ScanTimesteps(s, i + 1, target,
                      [min_diff |-> Some(time_diff), target_timestep |-> Some(s[i])])
             ELSE ScanTimesteps(s, i + 1, target, acc)

\* the loop of lines 167-173: the first <vehicle> with the id, or None
RECURSIVE FindVehicle(_, _, _)
FindVehicle(vs, i, id) ==
    IF i > Len(vs) THEN None
    ELSE IF vs[i].id = id
         THEN Some([x |-> vs[i].x, y |-> vs[i].y, angle |-> vs[i].angle])
         ELSE FindVehicle(vs, i + 1, id)

SortNone(s) == s
SortTimesteps(s) == SortByTime(s)

\* lines 149-161: parse, sort, scan
FindClosest ==
    /\ pc = "pose_enter"
    /\ all_timesteps' = SortTimesteps(fcd)
    /\ LET acc == ScanTimesteps(all_timesteps', 1, target_time,
                      [min_diff |-> None, target_timestep |-> None])
       IN  /\ min_diff' = acc.min_diff
           /\ target_timestep' = acc.target_timestep
    /\ pc' = "pose_scanned"
    /\ UNCHANGED << self, fcd, vehicle_id, target_time, vehicle_position, report,
                    context, camera, request, image_data, files, descriptions,
                    sumo_net, lonlat, result >>

LookupAnyVehicle(tt, id) ==
    IF IsNone(tt) THEN None
    ELSE IF tt[1].vehicles = << >> THEN None
         ELSE LET v == tt[1].vehicles[1]
              IN  Some([x |-> v.x, y |-> v.y, angle |-> v.angle])
LookupVehicle(tt, id) ==
    IF IsNone(tt) THEN None ELSE FindVehicle(tt[1].vehicles, 1, id)

\* lines 163-174: None without a timestep, else the vehicle search
FindVehicleInTimestep ==
    /\ pc = "pose_scanned"
    /\ vehicle_position' = LookupVehicle(target_timestep, vehicle_id)
    /\ pc' = "pose_return"
    /\ UNCHANGED << self, fcd, vehicle_id, target_time, all_timesteps, min_diff,
                    target_timestep, report, context, camera, request, image_data,
                    files, descriptions, sumo_net, lonlat, result >>

-----------------------------------------------------------------------------
(* _load_environment_context *)

\* A text of accident_time: its five digit groups when it has the layout
\* <digits>/<digits>/<digits><spaces><digits>:<digits> (shape "fields"), any
\* other text (shape "other").  A digit group is a sequence of digits.
Num(tok) == IF Len(tok) = 1 THEN tok[1] ELSE 10 * tok[1] + tok[2]

Dates ==
    { [mm |-> << 0, 3 >>, dd |-> << 1, 5 >>, yyyy |-> << 2, 0, 2, 4 >>],
      [mm |-> << 3 >>,    dd |-> << 5 >>,    yyyy |-> << 2, 0, 2, 4 >>],
      [mm |-> << 0, 2 >>, dd |-> << 2, 9 >>, yyyy |-> << 2, 0, 2, 4 >>],
      [mm |-> << 0, 2 >>, dd |-> << 2, 9 >>, yyyy |-> << 2, 0, 2, 3 >>],
      [mm |-> << 1, 3 >>, dd |-> << 0, 1 >>, yyyy |-> << 2, 0, 2, 4 >>],
      [mm |-> << 0, 3 >>, dd |-> << 1, 5 >>, yyyy |-> << 2, 4 >>] }

HourTokens == { << a >> : a \in 0 .. 9 } \cup { << a, b >> : a \in 0 .. 2, b \in 0 .. 9 }
MinuteTokens == { << 3, 0 >>, << 0, 0 >>, << 5 >>, << 6, 0 >> }

TimeTexts ==
    { [shape |-> sh, mm |-> d.mm, dd |-> d.dd, yyyy |-> d.yyyy, HH |-> h, MM |-> m] :
        sh \in {"fields", "other"}, d \in Dates, h \in HourTokens, m \in MinuteTokens }

IsLeap(y) == (y % 4 = 0 /\ y % 100 # 0) \/ y % 400 = 0
DaysIn(m, y) ==
    IF m = 2 THEN (IF IsLeap(y) THEN 29 ELSE 28)
    ELSE IF m \in {4, 6, 9, 11} THEN 30 ELSE 31

Year(tok) == 1000 * tok[1] + 100 * tok[2] + 10 * tok[3] + tok[4]

\* datetime.strptime(text, "%m/%d/%Y %H:%M"): the datetime, or None for
\* ValueError.  %m is 1[0-2]|0[1-9]|[1-9], %d is 3[01]|[12]\d|0[1-9]|[1-9],
\* %Y is \d\d\d\d, %H is 2[0-3]|[0-1]\d|\d, %M is [0-5]\d|\d, and the date
\* must exist.
Strptime(t) ==
    IF /\ t.shape = "fields"
       /\ Len(t.mm) \in {1, 2} /\ Num(t.mm) \in 1 .. 12
       /\ Len(t.dd) \in {1, 2} /\ Num(t.dd) \in 1 .. 31
       /\ Len(t.yyyy) = 4 /\ Year(t.yyyy) >= 1
       /\ Len(t.HH) \in {1, 2} /\ Num(t.HH) \in 0 .. 23
       /\ Len(t.MM) \in {1, 2} /\ Num(t.MM) \in 0 .. 59
       /\ Num(t.dd) <= DaysIn(Num(t.mm), Year(t.yyyy))
    THEN Some([year |-> Year(t.yyyy), month |-> Num(t.mm), day |-> Num(t.dd),
               hour |-> Num(t.HH), minute |-> Num(t.MM)])
    ELSE None

\* lines 289-298
TimeDescriptorShifted(hour) ==
    IF 5 <= hour /\ hour <= 11 THEN "morning"
    ELSE IF 11 <= hour /\ hour <= 13 THEN "noon"
    ELSE IF 13 <= hour /\ hour <= 17 THEN "afternoon"
    ELSE IF 17 <= hour /\ hour <= 19 THEN "evening"
    ELSE "night"
TimeDescriptor(hour) ==
    IF 5 <= hour /\ hour < 11 THEN "morning"
    ELSE IF 11 <= hour /\ hour < 13 THEN "noon"
    ELSE IF 13 <= hour /\ hour < 17 THEN "afternoon"
    ELSE IF 17 <= hour /\ hour < 19 THEN "evening"
    ELSE "night"

\* A YAML scalar read by dict.get: None (key missing, or null), or a text;
\* the empty text stands for every falsy value.
FieldValues(v) == {None, Some(""), Some(v)}
Truthy(o) == ~IsNone(o) /\ o[1] # ""

\* The value of accident_weather: "none" (missing, null or falsy), "nonmap" (a
\* truthy value that is no mapping: a text, a number, a list) or a mapping.
NoFields == [weather |-> None, light |-> None, road_surface_condition |-> None]
WeatherValues ==
    { [kind |-> "none"] @@ NoFields, [kind |-> "nonmap"] @@ NoFields }
    \cup { [kind |-> "map", weather |-> w, light |-> l, road_surface_condition |-> r] :
             w \in FieldValues("rain"), l \in FieldValues("dark"), r \in FieldValues("wet") }

\* The value of accident_time: "none" (missing, null or falsy), "nonstr" (a
\* truthy value that is no text: a number, a YAML timestamp) or a text.
NoText == [shape |-> "other", mm |-> << >>, dd |-> << >>, yyyy |-> << >>,
           HH |-> << >>, MM |-> << >>]
TimeValues ==
    { [kind |-> "none", text |-> NoText], [kind |-> "nonstr", text |-> NoText] }
    \cup { [kind |-> "str", text |-> t] : t \in TimeTexts }

\* The state of report.yaml.  file: "absent"; "oserror" (open or read fails
\* with OSError); "undecodable" (not UTF-8: read raises UnicodeDecodeError);
\* "badyaml" (yaml.YAMLError); "yaml".  doc, the loaded document: "empty"
\* (null or falsy, replaced by {}), "nonmap" (truthy and no mapping), "map".
NoDoc == [kind |-> "empty",
          accident_weather |-> [kind |-> "none"] @@ NoFields,
          accident_time |-> [kind |-> "none", text |-> NoText]]
Reports ==
    { [file |-> f, doc |-> NoDoc] : f \in {"absent", "oserror", "undecodable", "badyaml"} }
    \cup { [file |-> "yaml", doc |-> NoDoc],
           [file |-> "yaml", doc |-> [NoDoc EXCEPT !.kind = "nonmap"]] }
    \cup { [file |-> "yaml",
            doc |-> [kind |-> "map", accident_weather |-> w, accident_time |-> t]] :
             w \in WeatherValues, t \in TimeValues }

Returned(description, descriptor) ==
    [exc |-> "", environment_description |-> description, time_descriptor |-> descriptor]
Raised(e) ==
    [exc |-> e, environment_description |-> << >>, time_descriptor |-> None]
\* before the call of _load_environment_context
NotLoaded ==
    [exc |-> "not loaded", environment_description |-> << >>, time_descriptor |-> None]

\* lines 283-300: None unless accident_time is truthy and parses; strptime
\* of a value that is no text raises TypeError, which line 299 does not catch
ParseAccidentTime(at) ==
    IF at.kind = "none" THEN [exc |-> "", time_descriptor |-> None]
    ELSE IF at.kind = "nonstr" THEN [exc |-> "TypeError", time_descriptor |-> None]
    ELSE LET dt == Strptime(at.text)
         IN  IF IsNone(dt) THEN [exc |-> "", time_descriptor |-> None]
             ELSE [exc |-> "", time_descriptor |-> Some(TimeDescriptor(dt[1].hour))]

\* lines 302-312: the components joined by ", "; a component is the pair of
\* its label and its value
Component(label, o) == IF Truthy(o) THEN << << label, o[1] >> >> ELSE << >>

Components(aw, td) ==
    Component("weather", aw.weather) \o Component("lighting", aw.light)
    \o Component("road surface", aw.road_surface_condition)
    \o Component("time of day", td)

\* _load_environment_context(path_to_fcd), lines 266-312
LoadEnvironmentContext(rep) ==
    IF rep.file = "absent" THEN Returned(<< >>, None)
    ELSE IF rep.file \in {"oserror", "badyaml"} THEN Returned(<< >>, None)
    ELSE IF rep.file = "undecodable" THEN Raised("UnicodeDecodeError")
    ELSE IF rep.doc.kind = "nonmap" THEN Raised("AttributeError")
    ELSE LET report_data == IF rep.doc.kind = "empty" THEN NoDoc ELSE rep.doc
             aw == report_data.accident_weather
         IN  IF aw.kind = "nonmap" THEN Raised("AttributeError")
             ELSE LET parsed == ParseAccidentTime(report_data.accident_time)
                  IN  IF parsed.exc # "" THEN Raised(parsed.exc)
                      ELSE Returned(Components(aw, parsed.time_descriptor),
                                    parsed.time_descriptor)

LoadEnvironment ==
    /\ pc = "context_enter"
    /\ context' = LoadEnvironmentContext(report)
    /\ pc' = "context_return"
    /\ UNCHANGED << self, fcd, vehicle_id, target_time, all_timesteps, min_diff,
                    target_timestep, vehicle_position, report, camera, request,
                    image_data, files, descriptions, sumo_net, lonlat, result >>

-----------------------------------------------------------------------------
(* __init__ *)

\* a text argument or environment variable: unset, empty, or set
OptTexts(v) == {None, Some(""), Some(v)}

NoResult == [kind |-> "none", text |-> "", sections |-> << >>]
Raise(e) == [kind |-> "raise", text |-> e, sections |-> << >>]
Return(t, secs) == [kind |-> "return", text |-> t, sections |-> secs]

\* a or b, on optional texts
Or(a, b) == IF Truthy(a) THEN a ELSE b

UseOpenrouter(openrouter_model) == Truthy(openrouter_model)

GeminiKeyUnchecked(key) == TRUE
GeminiKeyPresent(key) == Truthy(key)

\* lines 20-58: the object, or the exception raised.  maps_key, or_key and
\* gemini_key are the environment variables GOOGLE_MAPS_API_KEY,
\* OPENROUTER_API_KEY and GEMINI_API_KEY; genai tells whether the package
\* google.generativeai can be imported.
Construct(google_model, openrouter_model, maps_key, or_key, gemini_key, genai) ==
    LET base == [google_maps_api_key |-> maps_key,
                 gemini_model_name |-> Or(google_model, Some("gemini-2.5-pro")),
                 openrouter_model_name |-> openrouter_model,
                 use_openrouter |-> UseOpenrouter(openrouter_model),
                 gemini_client |-> None,
                 openrouter_api_key |-> None,
                 gemini_api_key |-> None]
    IN  IF ~Truthy(maps_key)
        THEN [exc |-> "ValueError: Google Maps API key is required", obj |-> None]
        ELSE IF base.use_openrouter
        THEN IF ~Truthy(or_key)
             THEN [exc |-> "ValueError: OpenRouter API key is required when openrouter_model is specified",
                   obj |-> None]
             ELSE [exc |-> "", obj |-> Some([base EXCEPT !.openrouter_api_key = or_key])]
        ELSE IF ~GeminiKeyPresent(gemini_key)
             THEN [exc |-> "ValueError: Google Gemini API key is required", obj |-> None]
             ELSE IF ~genai
             THEN [exc |-> "ImportError: google-generativeai package is required for StreetViewRetrievalAndAnalysis",
                   obj |-> None]
             ELSE [exc |-> "",
                   obj |-> Some([base EXCEPT
                       !.gemini_api_key = gemini_key,
                       !.gemini_client = Some([model |-> base.gemini_model_name[1],
                                               api_key |-> gemini_key])])]

New ==
    /\ pc = "new"
    /\ \E google_model \in {None, Some("gemini-2.5-flash")},
          openrouter_model \in OptTexts("google/gemini-2.5-pro"),
          maps_key \in OptTexts("maps-key"),
          or_key \in OptTexts("openrouter-key"),
          gemini_key \in OptTexts("gemini-key"),
          genai \in BOOLEAN :
        LET made == Construct(google_model, openrouter_model, maps_key, or_key,
                              gemini_key, genai)
        IN  /\ self' = made.obj
            /\ result' = IF made.exc = "" THEN NoResult ELSE Raise(made.exc)
            /\ pc' = IF made.exc = "" THEN "ready" ELSE "init_failed"
    /\ UNCHANGED << fcd, vehicle_id, target_time, all_timesteps, min_diff,
                    target_timestep, vehicle_position, report, context, camera,
                    request, image_data, files, descriptions, sumo_net, lonlat >>

-----------------------------------------------------------------------------
(* get_streetview_image_and_description *)

\* camera_angle_list, fov_list and default_prompt_list (lines 215-224), in
\* the insertion order of camera_angle_list
Cameras ==
    << [name |-> "front",       angle |-> 0,    fov |-> 120, facing |-> "facing forward"],
       [name |-> "front_left",  angle |-> -66,  fov |-> 120, facing |-> "facing to the left"],
       [name |-> "front_right", angle |-> 66,   fov |-> 120, facing |-> "facing to the right"],
       [name |-> "rear",        angle |-> 180,  fov |-> 30,  facing |-> "facing backwards"],
       [name |-> "rear_left",   angle |-> -152, fov |-> 70,  facing |-> "facing the rear left side"],
       [name |-> "rear_right",  angle |-> 152,  fov |-> 70,  facing |-> "facing the rear right side"] >>

CameraNames == { Cameras[i].name : i \in 1 .. Len(Cameras) }

NoFiles == [n \in CameraNames |-> [image |-> "none", prompt |-> "none"]]

FailedText == "Failed to retrieve street view"
NotFoundText == "Vehicle not found at the specified time"

\* f"{camera_name}: {text}": the camera name, then the parts of the text
Section(name, parts) == [camera |-> name, text |-> parts]

\* The arguments of a call: the empty log; the log of one timestep (time 2)
\* with one vehicle (x 10, y 20, angle 90), asked for that vehicle and for
\* another; a log whose nearest timestep lacks the vehicle that a farther
\* timestep holds.
OneVehicleLog == << [time |-> 2, vehicles |-> << Vehicle("vehicle0", PoseA) >>] >>
CallArguments ==
    { [fcd |-> << >>, vehicle_id |-> "vehicle0", target_time |-> 2],
      [fcd |-> OneVehicleLog, vehicle_id |-> "vehicle0", target_time |-> 2],
      [fcd |-> OneVehicleLog, vehicle_id |-> "vehicle1", target_time |-> 2],
      [fcd |-> << [time |-> 2, vehicles |-> << Vehicle("vehicle0", PoseA) >>],
                  [time |-> 0, vehicles |-> << Vehicle("vehicle1", PoseB) >>] >>,
       vehicle_id |-> "vehicle0", target_time |-> 0] }

\* The report.yaml files of a call: none; one that is not UTF-8; one whose
\* top level is a list; one with weather, light and the time 03/15/2024 08:30.
CallReports ==
    { r \in Reports :
        \/ r.file \in {"absent", "undecodable"}
        \/ r.file = "yaml" /\ r.doc.kind = "nonmap"
        \/ /\ r.file = "yaml" /\ r.doc.kind = "map"
           /\ r.doc.accident_weather.kind = "map"
           /\ r.doc.accident_weather.weather = Some("rain")
           /\ r.doc.accident_weather.light = Some("dark")
           /\ r.doc.accident_weather.road_surface_condition = None
           /\ r.doc.accident_time.kind = "str"
           /\ r.doc.accident_time.text =
                [shape |-> "fields", mm |-> << 0, 3 >>, dd |-> << 1, 5 >>,
                 yyyy |-> << 2, 0, 2, 4 >>, HH |-> << 0, 8 >>, MM |-> << 3, 0 >>] }

\* entry of the method on the constructed object: the arguments are bound
Call ==
    /\ pc = "ready"
    /\ \E a \in CallArguments :
        /\ fcd' = a.fcd
        /\ vehicle_id' = a.vehicle_id
        /\ target_time' = a.target_time
    /\ pc' = "load_map"
    /\ UNCHANGED << self, all_timesteps, min_diff, target_timestep,
                    vehicle_position, report, context, camera, request,
                    image_data, files, descriptions, sumo_net, lonlat, result >>

\* line 195: sumolib.net.readNet returns the network or raises
LoadMap ==
    /\ pc = "load_map"
    /\ \/ /\ sumo_net' = Some("net")
          /\ pc' = "pose_enter"
          /\ UNCHANGED result
       \/ /\ pc' = "raised"
          /\ result' = Raise("readNet")
          /\ UNCHANGED sumo_net
    /\ UNCHANGED << self, fcd, vehicle_id, target_time, all_timesteps, min_diff,
                    target_timestep, vehicle_position, report, context, camera,
                    request, image_data, files, descriptions, lonlat >>

\* the geographic point of convertXY2LonLat(x, y), kept symbolic
LonLat(x, y) == [lon |-> << "lon", x, y >>, lat |-> << "lat", x, y >>]

\* line 205
NotFoundRaised == Raise(NotFoundText)
NotFound == Return(NotFoundText, << >>)

\* lines 204-212: the early return; else the projection, which returns
\* (lon, lat) or raises.  The state of report.yaml that line 227 will find
\* is fixed here.
CheckPose ==
    /\ pc = "pose_return"
    /\ IF IsNone(vehicle_position)
       THEN /\ result' = NotFound
            /\ pc' = IF result'.kind = "return" THEN "returned" ELSE "raised"
            /\ UNCHANGED << lonlat, report >>
       ELSE \/ /\ pc' = "raised"
               /\ result' = Raise("convertXY2LonLat")
               /\ UNCHANGED << lonlat, report >>
            \/ /\ lonlat' = Some(LonLat(vehicle_position[1].x, vehicle_position[1].y))
               /\ \E r \in CallReports : report' = r
               /\ pc' = "context_enter"
               /\ UNCHANGED result
    /\ UNCHANGED << self, fcd, vehicle_id, target_time, all_timesteps, min_diff,
                    target_timestep, vehicle_position, context, camera, request,
                    image_data, files, descriptions, sumo_net >>

\* lines 227-230: the context is bound, or its exception leaves the method;
\* the loop starts at the first camera
StartLoop ==
    /\ pc = "context_return"
    /\ IF context.exc # ""
       THEN /\ pc' = "raised"
            /\ result' = Raise(context.exc)
            /\ UNCHANGED camera
       ELSE /\ pc' = "fetch"
            /\ camera' = 1
            /\ UNCHANGED result
    /\ UNCHANGED << self, fcd, vehicle_id, target_time, all_timesteps, min_diff,
                    target_timestep, vehicle_position, report, context, request,
                    image_data, files, descriptions, sumo_net, lonlat >>

Heading(angle, camera_angle) == angle + camera_angle

\* lines 232-234 with get_street_view_image (lines 74-88): the request is
\* sent; status 200 gives the bytes, any other status or a transport error
\* raises
FetchImage ==
    /\ pc = "fetch"
    /\ LET cam == Cameras[camera]
       IN  request' = [kind |-> "streetview", size |-> "600x400",
                       latitude |-> lonlat[1].lat, longitude |-> lonlat[1].lon,
                       heading |-> Heading(vehicle_position[1].angle, cam.angle),
                       pitch |-> 0, fov |-> cam.fov]
    /\ \/ /\ image_data' = Some("jpeg")
          /\ pc' = "save_image"
       \/ /\ UNCHANGED image_data
          /\ pc' = "except"
    /\ UNCHANGED << self, fcd, vehicle_id, target_time, all_timesteps, min_diff,
                    target_timestep, vehicle_position, report, context, camera,
                    files, descriptions, sumo_net, lonlat, result >>

\* lines 237-240: open, write and close the image file
SaveImage ==
    /\ pc = "save_image"
    /\ LET name == Cameras[camera].name
       IN  \/ /\ UNCHANGED files                                   \* open raises
              /\ pc' = "except"
           \/ /\ files' = [files EXCEPT ![name].image = "partial"] \* write or close raises
              /\ pc' = "except"
           \/ /\ files' = [files EXCEPT ![name].image = "full"]
              /\ pc' = "analyze"
    /\ UNCHANGED << self, fcd, vehicle_id, target_time, all_timesteps, min_diff,
                    target_timestep, vehicle_position, report, context, camera,
                    request, image_data, descriptions, sumo_net, lonlat, result >>

\* lines 106-117: the instruction, then the clauses for a non-empty
\* environment description and for a time descriptor
Prompt(environment_description, time_descriptor) ==
    << << "instruction" >> >>
    \o (IF environment_description # << >>
        THEN << << "conditions" >> \o environment_description >> ELSE << >>)
    \o (IF Truthy(time_descriptor)
        THEN << << "time", time_descriptor[1] >> >> ELSE << >>)

\* lines 119-133 and _generate_with_openrouter (lines 314-344): the request
\* that the selected backend is sent, or << >> when the local client is None
\* and RuntimeError is raised before any request
BackendRequest(obj, prompt, image) ==
    IF obj.use_openrouter
    THEN [kind |-> "openrouter", model |-> obj.openrouter_model_name,
          bearer |-> obj.openrouter_api_key, prompt |-> prompt,
          image |-> << "base64", image >>, timeout |-> 60]
    ELSE IF IsNone(obj.gemini_client) THEN << >>
    ELSE [kind |-> "gemini", model |-> Some(obj.gemini_client[1].model),
          bearer |-> obj.gemini_client[1].api_key, prompt |-> prompt,
          image |-> << "image/jpeg", image >>, timeout |-> 0]

\* lines 243-247: analyze_image_with_llm returns the caption or raises
Analyze ==
    /\ pc = "analyze"
    /\ LET req == BackendRequest(self[1],
                      Prompt(context.environment_description, context.time_descriptor),
                      image_data[1])
       IN  IF req = << >>
           THEN /\ pc' = "except"
                /\ UNCHANGED request
           ELSE /\ request' = req
                /\ pc' \in {"save_description", "except"}
    /\ UNCHANGED << self, fcd, vehicle_id, target_time, all_timesteps, min_diff,
                    target_timestep, vehicle_position, report, context, camera,
                    image_data, files, descriptions, sumo_net, lonlat, result >>

\* lines 249-250: default prompt, time prefix, caption
FullDescription(cam, time_descriptor) ==
    << cam.facing >>
    \o (IF Truthy(time_descriptor) THEN << time_descriptor[1] >> ELSE << >>)
    \o << "caption" >>

NextCameraSame(c) == c
NextCamera(c) == c + 1

\* the loop of line 230 goes on, or ends
AfterCamera(c) == IF c > Len(Cameras) THEN "combine" ELSE "fetch"

\* lines 251-256: open, write and close the caption file, append the section
SaveDescription ==
    /\ pc = "save_description"
    /\ LET cam == Cameras[camera]
       IN  \/ /\ UNCHANGED << files, descriptions, camera >>            \* open raises
              /\ pc' = "except"
           \/ /\ files' = [files EXCEPT ![cam.name].prompt = "partial"] \* write or close raises
              /\ UNCHANGED << descriptions, camera >>
              /\ pc' = "except"
           \/ /\ files' = [files EXCEPT ![cam.name].prompt = "full"]
              /\ descriptions' = Append(descriptions,
                     Section(cam.name, FullDescription(cam, context.time_descriptor)))
              /\ camera' = NextCamera(camera)
              /\ pc' = AfterCamera(camera')
    /\ UNCHANGED << self, fcd, vehicle_id, target_time, all_timesteps, min_diff,
                    target_timestep, vehicle_position, report, context, request,
                    image_data, sumo_net, lonlat, result >>

\* lines 258-260: the handler appends the placeholder
Except ==
    /\ pc = "except"
    /\ descriptions' = Append(descriptions,
           Section(Cameras[camera].name, << FailedText >>))
    /\ camera' = NextCamera(camera)
    /\ pc' = AfterCamera(camera')
    /\ UNCHANGED << self, fcd, vehicle_id, target_time, all_timesteps, min_diff,
                    target_timestep, vehicle_position, report, context, request,
                    image_data, files, sumo_net, lonlat, result >>

\* lines 263-264: "\n\n".join(descriptions), the sections in order
Combine ==
    /\ pc = "combine"
    /\ result' = Return("combined", descriptions)
    /\ pc' = "returned"
    /\ UNCHANGED << self, fcd, vehicle_id, target_time, all_timesteps, min_diff,
                    target_timestep, vehicle_position, report, context, camera,
                    request, image_data, files, descriptions, sumo_net, lonlat >>

-----------------------------------------------------------------------------
(* Specifications *)

\* nothing constructed, no call running
Idle ==
    /\ self = None
    /\ all_timesteps = << >> /\ min_diff = None /\ target_timestep = None
    /\ vehicle_position = None
    /\ context = NotLoaded
    /\ camera = 0 /\ request = << >> /\ image_data = None
    /\ files = NoFiles /\ descriptions = << >>
    /\ sumo_net = None /\ lonlat = None
    /\ result = NoResult

NoArguments == fcd = << >> /\ vehicle_id = "" /\ target_time = 0
NoReport == report = [file |-> "absent", doc |-> NoDoc]

\* the program: construction, then a call of get_streetview_image_and_description
Init == pc = "new" /\ Idle /\ NoArguments /\ NoReport

Next ==
    \/ New
    \/ Call
    \/ LoadMap
    \/ FindClosest
    \/ FindVehicleInTimestep
    \/ CheckPose
    \/ LoadEnvironment
    \/ StartLoop
    \/ FetchImage
    \/ SaveImage
    \/ Analyze
    \/ SaveDescription
    \/ Except
    \/ Combine

Spec == Init /\ [][Next]_vars

\* get_vehicle_position_at_time alone, on every FCD log within the bounds
InitPose ==
    /\ pc = "pose_enter" /\ Idle /\ NoReport
    /\ fcd \in FcdLogs
    /\ vehicle_id \in VehicleIds
    /\ target_time \in Times

NextPose == FindClosest \/ FindVehicleInTimestep

SpecPose == InitPose /\ [][NextPose]_vars

\* _load_environment_context alone, on every state of report.yaml
InitContext ==
    /\ pc = "context_enter" /\ Idle /\ NoArguments
    /\ report \in Reports

NextContext == LoadEnvironment

SpecContext == InitContext /\ [][NextContext]_vars

-----------------------------------------------------------------------------
(* Properties of get_vehicle_position_at_time, under SpecPose *)

Scanned == pc \in {"pose_scanned", "pose_return"}
Distance(ts) == Abs(ts.time - target_time)
HasVehicle(ts, id) == \E j \in 1 .. Len(ts.vehicles) : ts.vehicles[j].id = id

\* C1: on a log with at least one timestep, the selected timestep is at a
\* distance from the target time that no timestep of the file undercuts,
\* whatever the file order; a timestep at the target time itself gives a
\* selected timestep at distance 0.
C1_NearestSelected ==
    (Scanned /\ fcd # << >>) =>
        /\ ~IsNone(target_timestep)
        /\ \E i \in 1 .. Len(fcd) : fcd[i] = target_timestep[1]
        /\ \A i \in 1 .. Len(fcd) : Distance(target_timestep[1]) <= Distance(fcd[i])
        /\ (\E i \in 1 .. Len(fcd) : fcd[i].time = target_time)
               => target_timestep[1].time = target_time

\* a file in descending time order whose last timestep is the nearest, and
\* a file that holds the target time behind a farther timestep
C1_Witness ==
    /\ pc = "pose_return" /\ Len(fcd) = 2
    /\ fcd[1].time > fcd[2].time
    /\ fcd[2].time = target_time
    /\ target_timestep = Some(fcd[2])

\* C2: among timesteps equally close to the target time, the one with the
\* earlier timestamp is selected, whatever the file order.
C2_EarlierWinsTies ==
    (Scanned /\ fcd # << >>) =>
        \A i \in 1 .. Len(fcd) :
            Distance(fcd[i]) = Distance(target_timestep[1])
                => target_timestep[1].time <= fcd[i].time

\* two timesteps at the same distance on both sides of the target time, the
\* later one first in the file
C2_Witness ==
    /\ pc = "pose_return" /\ Len(fcd) = 2
    /\ fcd[1].time > target_time /\ fcd[2].time < target_time
    /\ Distance(fcd[1]) = Distance(fcd[2])
    /\ target_timestep = Some(fcd[2])

\* C3: the result is None exactly when the log is empty or the selected
\* timestep holds no vehicle with the id, also when another timestep holds
\* one; otherwise it is the (x, y, angle) of the first vehicle with the id in
\* the selected timestep.
C3_NotFoundExactly ==
    pc = "pose_return" =>
        /\ IsNone(vehicle_position) <=>
               (fcd = << >> \/ ~HasVehicle(target_timestep[1], vehicle_id))
        /\ ~IsNone(vehicle_position) =>
               LET vs == target_timestep[1].vehicles
               IN  \E j \in 1 .. Len(vs) :
                       /\ vs[j].id = vehicle_id
                       /\ \A k \in 1 .. j - 1 : vs[k].id # vehicle_id
                       /\ vehicle_position[1] =
                              [x |-> vs[j].x, y |-> vs[j].y, angle |-> vs[j].angle]

\* not found although a farther timestep holds the vehicle
C3_Witness ==
    /\ pc = "pose_return" /\ IsNone(vehicle_position)
    /\ ~IsNone(target_timestep)
    /\ target_timestep[1].vehicles # << >>
    /\ \E i \in 1 .. Len(fcd) : HasVehicle(fcd[i], vehicle_id)

-----------------------------------------------------------------------------
(* Properties of _load_environment_context, under SpecContext *)

ContextDone == pc = "context_return"

\* C5: _load_environment_context never raises, whatever the state of
\* report.yaml; an absent or unparsable report gives ("", None); a malformed
\* accident_time gives no time descriptor.
C5_ContextNeverRaises ==
    ContextDone =>
        /\ context.exc = ""
        /\ report.file # "yaml" =>
               context.environment_description = << >> /\ IsNone(context.time_descriptor)

\* the text 'MM/DD/YYYY HH:MM' of an existing date and time
WellFormed(t) ==
    /\ t.shape = "fields"
    /\ Len(t.mm) = 2 /\ Len(t.dd) = 2 /\ Len(t.yyyy) = 4
    /\ Len(t.HH) = 2 /\ Len(t.MM) = 2
    /\ 10 * t.mm[1] + t.mm[2] \in 1 .. 12
    /\ 10 * t.dd[1] + t.dd[2] \in 1 .. DaysIn(10 * t.mm[1] + t.mm[2], Year(t.yyyy))
    /\ 10 * t.HH[1] + t.HH[2] \in 0 .. 23
    /\ 10 * t.MM[1] + t.MM[2] \in 0 .. 59

Label(h) ==
    CASE h \in 5 .. 10 -> "morning"
      [] h \in 11 .. 12 -> "noon"
      [] h \in 13 .. 16 -> "afternoon"
      [] h \in 17 .. 18 -> "evening"
      [] h \in (0 .. 4) \cup (19 .. 23) -> "night"

TimeOfDayParts(description) ==
    { i \in 1 .. Len(description) : description[i][1] = "time of day" }

\* C8: when the call returns on a well-formed accident_time, the time
\* descriptor is the label of the hour (5-10 morning, 11-12 noon, 13-16
\* afternoon, 17-18 evening, 0-4 and 19-23 night), and the summary holds
\* 'time of day: <label>' exactly when a descriptor is returned.
C8_HourBuckets ==
    (ContextDone /\ context.exc = "") =>
        /\ LET at == report.doc.accident_time
           IN  (report.file = "yaml" /\ report.doc.kind = "map" /\ at.kind = "str"
                   /\ WellFormed(at.text))
                   => context.time_descriptor =
                          Some(Label(10 * at.text.HH[1] + at.text.HH[2]))
        /\ LET d == context.environment_description
           IN  IF IsNone(context.time_descriptor)
               THEN TimeOfDayParts(d) = {}
               ELSE /\ TimeOfDayParts(d) = {Len(d)}
                    /\ d[Len(d)] = << "time of day", context.time_descriptor[1] >>

\* 11:00 is noon and no longer morning
C8_Witness ==
    /\ ContextDone
    /\ report.file = "yaml" /\ report.doc.kind = "map"
    /\ report.doc.accident_time.kind = "str"
    /\ WellFormed(report.doc.accident_time.text)
    /\ report.doc.accident_time.text.HH = << 1, 1 >>
    /\ context.time_descriptor = Some("noon")
    /\ Len(context.environment_description) = 4

-----------------------------------------------------------------------------
(* Properties of the object and of the orchestrator, under Spec *)

LoopPcs == {"fetch", "save_image", "analyze", "save_description", "except"}
IsPlaceholder(section) == section.text = << FailedText >>

\* C6: a constructed object has exactly one caption backend, fixed by the
\* truth of openrouter_model: the remote one with its key and no local
\* client, or the local client with its key and no remote key; a missing
\* required credential leaves no object and no request, and the object never
\* reaches analyze_image_with_llm without a request to send.
C6_BackendSelected ==
    /\ pc = "init_failed" => (IsNone(self) /\ result.kind = "raise" /\ request = << >>)
    /\ ~IsNone(self) =>
           LET o == self[1]
           IN  /\ Truthy(o.google_maps_api_key)
               /\ o.use_openrouter <=> Truthy(o.openrouter_model_name)
               /\ o.use_openrouter =>
                      (Truthy(o.openrouter_api_key) /\ IsNone(o.gemini_client))
               /\ ~o.use_openrouter =>
                      /\ ~IsNone(o.gemini_client)
                      /\ Truthy(o.gemini_client[1].api_key)
                      /\ IsNone(o.openrouter_api_key)
               /\ pc = "analyze" =>
                      BackendRequest(o, << >>, "jpeg") # << >>
               /\ pc = "save_description" =>
                      /\ request.kind = (IF o.use_openrouter THEN "openrouter" ELSE "gemini")
                      /\ Truthy(request.bearer)

\* an object built with openrouter_model = "" sends its caption request to
\* the local backend
C6_Witness ==
    /\ pc = "save_description"
    /\ self[1].openrouter_model_name = Some("")
    /\ request.kind = "gemini"

\* C7: when the pose is not found the call returns the text 'Vehicle not
\* found at the specified time' and does not raise; nothing is projected,
\* no context is loaded, nothing is requested and no file is written; only
\* the map load precedes the pose lookup.
C7_NotFoundFailsFast ==
    IsNone(vehicle_position) =>
        /\ IsNone(lonlat) /\ context = NotLoaded /\ NoReport
        /\ request = << >> /\ IsNone(image_data)
        /\ files = NoFiles /\ descriptions = << >>
        /\ pc \in {"new", "init_failed", "ready", "load_map", "pose_enter",
                   "pose_scanned", "pose_return", "returned", "raised"}
        /\ pc \in {"pose_enter", "pose_scanned", "pose_return", "returned"}
               => ~IsNone(sumo_net)
        /\ pc = "returned" => result = Return(NotFoundText, << >>)
        /\ pc = "raised" => (IsNone(sumo_net) /\ result = Raise("readNet"))

\* the vehicle is missing from the nearest timestep of a log that holds it
C7_Witness ==
    /\ pc = "returned" /\ IsNone(vehicle_position)
    /\ Len(fcd) = 2
    /\ result.text = NotFoundText

\* C4: once the pose is resolved (and projected: a projection failure is
\* allowed to end the call), the call returns and never raises, and its
\* result is six sections, one per camera in the order of the table, each
\* under its camera name.
C4_SixSectionsAlways ==
    (~IsNone(lonlat) /\ pc \in {"returned", "raised"}) =>
        /\ pc = "returned"
        /\ Len(result.sections) = Len(Cameras)
        /\ \A k \in 1 .. Len(Cameras) : result.sections[k].camera = Cameras[k].name

\* C9: every heading sent to the street view service is within 0 .. 360
\* and every field of view within 10 .. 120.
C9_HeadingFovInRange ==
    (request # << >> /\ request.kind = "streetview") =>
        /\ request.heading \in 0 .. 360
        /\ request.fov \in 10 .. 120

\* C10: the viewpoints are processed one after another, each as fetch, image
\* file, caption request, caption file, section; no file of a later viewpoint
\* is touched before the section of the earlier one is recorded; a caption
\* file is complete exactly when the section is a caption, and is touched
\* only after the image file is complete.
C10_ViewpointsInOrder ==
    /\ pc \in LoopPcs => (camera \in 1 .. Len(Cameras) /\ Len(descriptions) = camera - 1)
    /\ pc = "combine" => Len(descriptions) = Len(Cameras)
    /\ (pc = "returned" /\ ~IsNone(vehicle_position)) => result.sections = descriptions
    /\ \A k \in 1 .. Len(Cameras) :
           LET f == files[Cameras[k].name]
           IN  /\ k <= Len(descriptions) =>
                      /\ descriptions[k].camera = Cameras[k].name
                      /\ f.prompt = "full" <=> ~IsPlaceholder(descriptions[k])
               /\ f.prompt # "none" => f.image = "full"
               /\ (k > Len(descriptions) /\ ~(pc \in LoopPcs /\ k = camera))
                      => (f.image = "none" /\ f.prompt = "none")
               /\ (pc \in {"fetch", "save_image"} /\ k = camera)
                      => (f.image = "none" /\ f.prompt = "none")
               /\ (pc \in {"analyze", "save_description"} /\ k = camera)
                      => (f.image = "full" /\ f.prompt = "none")

\* a returned call with a placeholder beside a complete image file and no
\* caption file, after a viewpoint with a caption
C10_Witness ==
    /\ pc = "returned" /\ Len(descriptions) = Len(Cameras)
    /\ ~IsPlaceholder(descriptions[1])
    /\ IsPlaceholder(descriptions[2])
    /\ files["front_left"] = [image |-> "full", prompt |-> "none"]
    /\ files["rear"].prompt = "partial"

=============================================================================
